---- MODULE Spec2Model ----
(***************************************************************************)
(* The conversion form of api-spec-converter (App.tsx, both front-end      *)
(* variants): the component-local React state, the form's edit handlers,   *)
(* the Convert button and the asynchronous handleConvert chain             *)
(* (getClient -> parse -> transform -> render) around the external AMF     *)
(* library, whose responses are nondeterministic.                          *)
(*                                                                         *)
(* A text is a sequence of tokens: one token per character of user or      *)
(* library text, one token per string literal of the source.               *)
(***************************************************************************)
EXTENDS Integers, Sequences, FiniteSets, TLC

\* ------------------------------------------------------------------ bounds
MaxLen == 1        \* longest text typed into the input field
MaxDiags == 2      \* longest diagnostic list the library returns
MaxInFlight == 2   \* most handleConvert calls suspended at once

\* --------------------------------------------------------------- constants
Variants == {"plain", "styled"}

Undefined == "undefined"

AllFormats == {"RAML 0.8", "RAML 1.0", "OAS 2.0", "OAS 3.0"}

InputModes == {"url", "content"}

\* <option> values of the input-format <select>
InputFormatOptions(v) ==
  IF v = "plain" THEN {"RAML 1.0", "OAS 2.0", "OAS 3.0"}
  ELSE {"RAML 0.8", "RAML 1.0", "OAS 2.0", "OAS 3.0"}

\* <option> values of the output-format <select>
OutputFormatOptions(v) ==
  IF v = "plain" THEN {"RAML 1.0", "OAS 2.0", "OAS 3.0"}
  ELSE {"RAML 0.8", "RAML 1.0", "OAS 2.0", "OAS 3.0"}

\* getClient with the 'RAML 0.8' case missing from the switch
getClientWithoutRaml08(v, format) ==
  CASE format = "RAML 1.0" -> "RAML10"
    [] format = "OAS 2.0" -> "OAS20"
    [] format = "OAS 3.0" -> "OAS30"
    [] OTHER -> Undefined

\* the switch of getClient: the configuration whose baseUnitClient() is
\* returned, Undefined when no case matches
getClient(v, format) ==
  CASE format = "RAML 0.8" /\ v = "styled" -> "RAML08"
    [] format = "RAML 1.0" -> "RAML10"
    [] format = "OAS 2.0" -> "OAS20"
    [] format = "OAS 3.0" -> "OAS30"
    [] OTHER -> Undefined

\* ------------------------------------------------------------------- texts
Space == " "

Chars == {Space, "a"}

SeqsUpTo(S, n) == UNION {[1..k -> S] : k \in 0..n}

InputTexts == SeqsUpTo(Chars, MaxLen)

RECURSIVE TrimStart(_)
TrimStart(s) ==
  IF s # <<>> /\ Head(s) = Space THEN TrimStart(Tail(s)) ELSE s

RECURSIVE TrimEnd(_)
TrimEnd(s) ==
  IF s # <<>> /\ s[Len(s)] = Space THEN TrimEnd(SubSeq(s, 1, Len(s) - 1)) ELSE s

\* String.prototype.trim
Trim(s) == TrimEnd(TrimStart(s))

\* !input, the trim forgotten
IsEmpty(s) == s = <<>>

\* !input.trim()
IsBlank(s) == Trim(s) = <<>>

\* Array.prototype.join over texts
RECURSIVE Join(_, _)
Join(list, sep) ==
  IF list = <<>> THEN <<>>
  ELSE IF Len(list) = 1 THEN list[1]
  ELSE list[1] \o sep \o Join(Tail(list), sep)

Newline == <<"\n">>

PleaseProvideInput == <<"Please provide input">>

\* the header followed by the first message only
ParsingErrorsFirstOnly(results) ==
  <<"Parsing errors:">> \o Newline \o (IF results = <<>> THEN <<>> ELSE results[1])

\* `Parsing errors:\n${errors}`
ParsingErrors(results) == <<"Parsing errors:">> \o Newline \o Join(results, Newline)

\* ------------------------------------------------- the library's responses
\* r.message of a diagnostic
Messages == {<<>>, <<"m">>}

\* the `results` field of a parse/transform result
DiagLists == SeqsUpTo(Messages, MaxDiags)

\* results may be absent (undefined) on a result bundle
NoResults == [defined |-> FALSE, list |-> <<>>]

Results == {[defined |-> TRUE, list |-> d] : d \in DiagLists} \cup {NoResults}

\* the `results` of a transform result: only their emptiness is read
Warnings ==
  {NoResults, [defined |-> TRUE, list |-> <<>>], [defined |-> TRUE, list |-> << <<"m">> >>]}

ThrownTexts == {<<>>, <<"b", "o", "o", "m">>}

\* what a call may throw: an Error carrying a message, or any other value;
\* string is String(err)
Thrown ==
  {[isError |-> TRUE, message |-> m, string |-> <<"Error: ">> \o m] : m \in ThrownTexts}
  \cup {[isError |-> FALSE, message |-> <<>>, string |-> t] : t \in ThrownTexts}

NoThrown == [isError |-> FALSE, message |-> <<>>, string |-> <<"none">>]

\* calling a method of an undefined client
TypeError ==
  [isError |-> TRUE, message |-> <<"undefined client">>,
   string |-> <<"Error: ", "undefined client">>]

\* String(err) whatever the value
ErrString(err) == err.string

\* err instanceof Error ? err.message : String(err)
ErrText(err) == IF err.isError THEN err.message ELSE err.string

\* `Conversion error: ${...}`
ConversionError(err) == <<"Conversion error: ">> \o ErrText(err)

\* the string render returns
Rendered == {<<>>, <<"d", "o", "c">>}

\* outputFormat.startsWith('RAML') ? 'application/yaml' : 'application/json'
MimeType(format) ==
  IF format \in {"RAML 0.8", "RAML 1.0"} THEN "application/yaml" ELSE "application/json"

\* the diagnostics check left out
HasDiagnosticsNever(results) == FALSE

\* parseErrors && parseErrors.length > 0
HasDiagnostics(results) == results.defined /\ Len(results.list) > 0

\* what awaiting parseDocument / parseContent yields
ParseOutcomes ==
  {[ok |-> FALSE, thrown |-> e, results |-> NoResults] : e \in Thrown}
  \cup {[ok |-> TRUE, thrown |-> NoThrown, results |-> d] : d \in Results}

\* what transform yields
TransformOutcomes ==
  {[ok |-> FALSE, thrown |-> e, results |-> NoResults] : e \in Thrown}
  \cup {[ok |-> TRUE, thrown |-> NoThrown, results |-> d] : d \in Warnings}

\* what render yields
RenderOutcomes ==
  {[ok |-> FALSE, thrown |-> e, text |-> <<>>] : e \in Thrown}
  \cup {[ok |-> TRUE, thrown |-> NoThrown, text |-> t] : t \in Rendered}

\* how far the synchronous prefix of handleConvert gets: a throw while
\* selecting a client or calling parse, or suspension at the first await
StartOutcomes ==
  {[at |-> w, thrown |-> e] : w \in {"inputClient", "outputClient", "parse"}, e \in Thrown}
  \cup {[at |-> "await", thrown |-> NoThrown]}

\* -------------------------------------------------------------------- state
VARIABLES
  variant,       \* which front-end is running
  inputFormat,   \* useState<Format>('OAS 2.0')
  outputFormat,  \* useState<Format>('OAS 3.0')
  inputMode,     \* useState<InputMode>('url')
  input,         \* useState('')
  output,        \* useState('')
  loading,       \* useState(false)
  error,         \* useState('')
  attempts,      \* the handleConvert calls suspended at an await
  last           \* the most recent handleConvert call and the responses it got

vars ==
  <<variant, inputFormat, outputFormat, inputMode, input, output, loading, error,
    attempts, last>>

form == <<variant, inputFormat, outputFormat, inputMode, input>>

\* a library call that was not made
NotCalled == [called |-> FALSE, ok |-> FALSE, thrown |-> NoThrown, results |-> NoResults]

NotRendered == [called |-> FALSE, ok |-> FALSE, thrown |-> NoThrown, text |-> <<>>]

\* a library call that was made and answered with `out`
Answered(out) == [called |-> TRUE] @@ out

NoAttempt ==
  [kind |-> "none", start |-> [at |-> "none", thrown |-> NoThrown],
   parse |-> NotCalled, transform |-> NotCalled, render |-> NotRendered,
   calls |-> <<>>, priorOutput |-> FALSE, priorError |-> FALSE]

Init ==
  /\ variant \in Variants
  /\ inputFormat = "OAS 2.0"
  /\ outputFormat = "OAS 3.0"
  /\ inputMode = "url"
  /\ input = <<>>
  /\ output = <<>>
  /\ loading = FALSE
  /\ error = <<>>
  /\ attempts = <<>>
  /\ last = NoAttempt

\* --------------------------------------------------------- the form's edits
\* onChange of the input-format <select>
SetInputFormat ==
  /\ \E f \in InputFormatOptions(variant) : inputFormat' = f
  /\ UNCHANGED <<variant, outputFormat, inputMode, input, output, loading, error,
                 attempts, last>>

\* onChange of the output-format <select>
SetOutputFormat ==
  /\ \E f \in OutputFormatOptions(variant) : outputFormat' = f
  /\ UNCHANGED <<variant, inputFormat, inputMode, input, output, loading, error,
                 attempts, last>>

\* onChange of the two mode radio buttons
SetInputMode ==
  /\ \E m \in InputModes : inputMode' = m
  /\ UNCHANGED <<variant, inputFormat, outputFormat, input, output, loading, error,
                 attempts, last>>

\* onChange of the URL field / the content textarea
SetInput ==
  /\ \E t \in InputTexts : input' = t
  /\ UNCHANGED <<variant, inputFormat, outputFormat, inputMode, output, loading, error,
                 attempts, last>>

\* ------------------------------------------------------------ handleConvert
\* disabled={!input.trim()}, the loading flag forgotten
DisabledIgnoresLoading == IsBlank(input)

\* the button's disabled attribute
Disabled == loading \/ IsBlank(input)

Remove(s, i) == SubSeq(s, 1, i - 1) \o SubSeq(s, i + 1, Len(s))

\* inputClient.parseDocument(input) / inputClient.parseContent(input, 'application/yaml')
ParseCall(mode) ==
  IF mode = "url" THEN <<"parseDocument">> ELSE <<"parseContent", "application/yaml">>

\* outputClient.transform(baseUnit, PipelineId.Compatibility)
TransformCall == <<"transform", "parseResult.baseUnit", "Compatibility">>

\* outputClient.render(transformResult.baseUnit, mimeType)
RenderCall(format) == <<"render", "transformResult.baseUnit", MimeType(format)>>

\* the library calls made by the synchronous prefix that stops at `at`
StartCalls(at, mode) ==
  CASE at = "inputClient" -> << <<"getClient">> >>
    [] at = "outputClient" -> << <<"getClient">>, <<"getClient">> >>
    [] OTHER -> << <<"getClient">>, <<"getClient">>, ParseCall(mode) >>

\* the error of the previous attempt left in place
KeepError(err) == err

\* setError('') at the top of handleConvert
ResetError(err) == <<>>

\* the output of the previous attempt left in place
KeepOutput(out) == out

\* setOutput('') at the top of handleConvert
ResetOutput(out) == <<>>

\* the catch block without the finally block: loading stays as
\* setLoading(true) left it
CatchWithoutFinally(rest, err, l) ==
  /\ error' = ConversionError(err)
  /\ loading' = TRUE
  /\ attempts' = rest
  /\ last' = [l EXCEPT !.kind = "done"]

\* catch: setError(`Conversion error: ...`); finally: setLoading(false)
CatchFinally(rest, err, l) ==
  /\ error' = ConversionError(err)
  /\ loading' = FALSE
  /\ attempts' = rest
  /\ last' = [l EXCEPT !.kind = "done"]

\* if (parseErrors && parseErrors.length > 0): setError, setLoading(false),
\* return, and the finally block's setLoading(false)
ParseErrorsReturn(rest, results, l) ==
  /\ error' = ParsingErrors(results.list)
  /\ loading' = FALSE
  /\ attempts' = rest
  /\ last' = [l EXCEPT !.kind = "done"]
  /\ UNCHANGED output

\* setOutput(rendered); finally: setLoading(false)
SetOutputFinally(rest, rendered, l) ==
  /\ output' = rendered
  /\ loading' = FALSE
  /\ attempts' = rest
  /\ last' = [l EXCEPT !.kind = "done"]
  /\ UNCHANGED error

\* transform diagnostics treated like parse diagnostics: reported and fatal
AfterTransformFatal(rest, a, l) ==
  \E t \in TransformOutcomes :
    LET lt == [l EXCEPT !.transform = Answered(t)]
    IN IF ~t.ok
       THEN CatchFinally(rest, t.thrown, lt) /\ UNCHANGED output
       ELSE IF HasDiagnostics(t.results)
       THEN ParseErrorsReturn(rest, t.results, lt)
       ELSE \E r \in RenderOutcomes :
              LET lr == [lt EXCEPT !.render = Answered(r),
                                    !.calls = Append(@, RenderCall(a.outputFormat))]
              IN IF ~r.ok
                 THEN CatchFinally(rest, r.thrown, lr) /\ UNCHANGED output
                 ELSE SetOutputFinally(rest, r.text, lr)

\* from the value of transform to the end of handleConvert: the warning
\* check, render and setOutput
AfterTransform(rest, a, l) ==
  \E t \in TransformOutcomes :
    LET lt == [l EXCEPT !.transform = Answered(t)]
    IN IF ~t.ok
       THEN CatchFinally(rest, t.thrown, lt) /\ UNCHANGED output
       ELSE \E r \in RenderOutcomes :
              LET lr == [lt EXCEPT !.render = Answered(r),
                                    !.calls = Append(@, RenderCall(a.outputFormat))]
              IN IF ~r.ok
                 THEN CatchFinally(rest, r.thrown, lr) /\ UNCHANGED output
                 ELSE SetOutputFinally(rest, r.text, lr)

\* the closure of one handleConvert call, as it stands at its first await
Closure ==
  [outputFormat |-> outputFormat, outputClient |-> getClient(variant, outputFormat),
   pc |-> "parse"]

\* handleConvert up to its first await
HandleConvert ==
  IF IsBlank(input)
  THEN /\ error' = PleaseProvideInput
       /\ last' = [NoAttempt EXCEPT !.kind = "noInput"]
       /\ UNCHANGED <<form, output, loading, attempts>>
  ELSE \E s \in StartOutcomes :
         LET l == [NoAttempt EXCEPT !.kind = "started",
                                    !.start = s,
                                    !.calls = StartCalls(s.at, inputMode),
                                    !.priorOutput = (output # <<>>),
                                    !.priorError = (error # <<>>)]
         IN /\ output' = ResetOutput(output)
            /\ UNCHANGED form
            /\ IF s.at # "await"
               THEN CatchFinally(attempts, s.thrown, l)
               ELSE IF getClient(variant, inputFormat) = Undefined
               THEN CatchFinally(attempts, TypeError,
                                 [l EXCEPT !.calls = StartCalls("outputClient", inputMode),
                                           !.start = [at |-> "parse", thrown |-> TypeError]])
               ELSE /\ loading' = TRUE
                    /\ error' = ResetError(error)
                    /\ attempts' = Append(attempts, Closure)
                    /\ last' = l

\* onClick of the Convert button
Click ==
  /\ ~Disabled
  /\ Len(attempts) < MaxInFlight
  /\ HandleConvert

\* handleConvert called as a function, whatever the button's state, once
\* the previous call has run to its end
Call ==
  /\ attempts = <<>>
  /\ HandleConvert

\* the awaited parse settles and handleConvert resumes
ParseDone ==
  \E i \in 1..Len(attempts) :
    \E p \in ParseOutcomes :
      LET a == attempts[i]
          rest == Remove(attempts, i)
          l == [last EXCEPT !.parse = Answered(p)]
          lc == [l EXCEPT !.calls = Append(@, TransformCall)]
      IN /\ a.pc = "parse"
         /\ UNCHANGED form
         /\ IF ~p.ok
            THEN CatchFinally(rest, p.thrown, l) /\ UNCHANGED output
            ELSE IF HasDiagnostics(p.results)
            THEN ParseErrorsReturn(rest, p.results, l)
            ELSE IF a.outputClient = Undefined
            THEN CatchFinally(rest, TypeError,
                              [l EXCEPT !.transform =
                                 Answered([ok |-> FALSE, thrown |-> TypeError,
                                           results |-> NoResults])])
                 /\ UNCHANGED output
            ELSE IF variant = "plain"
            THEN /\ attempts' = [attempts EXCEPT ![i].pc = "transform"]
                 /\ last' = lc
                 /\ UNCHANGED <<output, loading, error>>
            ELSE AfterTransform(rest, a, lc)

\* the awaited transform settles and handleConvert resumes (plain variant)
TransformDone ==
  \E i \in 1..Len(attempts) :
    LET a == attempts[i]
        rest == Remove(attempts, i)
    IN /\ a.pc = "transform"
       /\ UNCHANGED form
       /\ AfterTransform(rest, a, last)

Next ==
  \/ SetInputFormat
  \/ SetOutputFormat
  \/ SetInputMode
  \/ SetInput
  \/ Click
  \/ ParseDone
  \/ TransformDone

Spec == Init /\ [][Next]_vars

\* the handler exercised as a function, the button's guard bypassed
NextHandler ==
  \/ SetInputFormat
  \/ SetOutputFormat
  \/ SetInputMode
  \/ SetInput
  \/ Call
  \/ ParseDone
  \/ TransformDone

SpecHandler == Init /\ [][NextHandler]_vars

\* ================================================================== claims
Done == last.kind = "done"

\* the library returned a non-empty diagnostic list from this call
Diagnosed(o) == o.called /\ o.ok /\ o.results.defined /\ o.results.list # <<>>

\* some step of the attempt raised
Raised(l) ==
  \/ l.start.at \in {"inputClient", "outputClient", "parse"}
  \/ l.parse.called /\ ~l.parse.ok
  \/ l.transform.called /\ ~l.transform.ok
  \/ l.render.called /\ ~l.render.ok

\* the value that was raised
RaisedValue(l) ==
  IF l.start.at \in {"inputClient", "outputClient", "parse"} THEN l.start.thrown
  ELSE IF l.parse.called /\ ~l.parse.ok THEN l.parse.thrown
  ELSE IF l.transform.called /\ ~l.transform.ok THEN l.transform.thrown
  ELSE l.render.thrown

\* the message an exception carries, the value's text when it is no Error
MessageOf(e) == IF e.isError THEN e.message ELSE e.string

\* parse, transform and render all returned, parse without diagnostics
Succeeded(l) == /\ l.parse.called /\ l.parse.ok /\ ~Diagnosed(l.parse)
                /\ l.transform.called /\ l.transform.ok
                /\ l.render.called /\ l.render.ok

OnlySpaces(s) == \A i \in 1..Len(s) : s[i] = Space

\* C1: at most one conversion attempt is in flight in every reachable state:
\* no second handleConvert call is suspended while an earlier one is.
C1_SingleFlight == Len(attempts) <= 1

C1_Witness ==
  /\ Len(attempts) = 1
  /\ ~IsBlank(input)
  /\ last.priorOutput

\* C2: output and error are never both non-empty, and a finished attempt
\* leaves either a non-empty error with empty output or an empty error with
\* the text render returned.
C2_Exclusive ==
  /\ ~(output # <<>> /\ error # <<>>)
  /\ Done => \/ error # <<>> /\ output = <<>>
             \/ /\ error = <<>>
                /\ last.render.called /\ last.render.ok
                /\ output = last.render.text

C2_Witness ==
  /\ Done
  /\ Diagnosed(last.parse)
  /\ last.priorOutput
  /\ output = <<>>
  /\ error # <<>>

\* C3: the Convert button is disabled exactly when an attempt is in flight
\* or the input is blank; loading is true exactly while an attempt is in
\* flight, so after any finish the button is enabled when input is non-blank.
C3_DisabledExactly ==
  /\ Disabled <=> (attempts # <<>> \/ OnlySpaces(input))
  /\ loading <=> attempts # <<>>
  /\ (Done /\ ~OnlySpaces(input)) => ~Disabled

C3_Witness ==
  /\ Done
  /\ Raised(last)
  /\ last.parse.called
  /\ ~OnlySpaces(input)
  /\ ~Disabled

\* C4: a handleConvert call with empty or whitespace-only input starts no
\* attempt: every step taken with blank input and nothing in flight, which
\* includes every such call, leaves loading, output and the set of attempts
\* as they were, and a call records no library call.
C4_BlankStartsNothing ==
  [][(OnlySpaces(input) /\ attempts = <<>>)
       => /\ attempts' = <<>>
          /\ loading' = loading
          /\ output' = output
          /\ (last' # last => last'.kind = "noInput" /\ last'.calls = <<>>)]_vars

C4_Witness ==
  /\ last.kind = "noInput"
  /\ error = <<"Please provide input">>
  /\ input # <<>>
  /\ OnlySpaces(input)
  /\ ~loading

\* C5 as stated: after parse diagnostics the output is empty and the error
\* is the diagnostic messages joined by newlines.
C5_JoinedOnly ==
  (Done /\ Diagnosed(last.parse))
    => /\ output = <<>>
       /\ error = Join(last.parse.results.list, <<"\n">>)

\* C5 amended: after parse diagnostics the output is empty and the error is
\* the header "Parsing errors:", a newline and the diagnostic messages in
\* order joined by newlines.
C5_HeaderAndJoined ==
  (Done /\ Diagnosed(last.parse))
    => /\ output = <<>>
       /\ error[1] = "Parsing errors:"
       /\ error[2] = "\n"
       /\ LET msgs == last.parse.results.list
              body == SubSeq(error, 3, Len(error))
          IN IF Len(msgs) = 1 THEN body = msgs[1]
             ELSE IF Len(msgs) = 2 THEN body = msgs[1] \o <<"\n">> \o msgs[2]
             ELSE body = msgs[1] \o <<"\n">> \o msgs[2] \o <<"\n">>
                           \o Join(SubSeq(msgs, 3, Len(msgs)), <<"\n">>)

C5_Witness ==
  /\ Done
  /\ Diagnosed(last.parse)
  /\ last.priorOutput
  /\ Len(last.parse.results.list) = 2
  /\ last.parse.results.list[1] # last.parse.results.list[2]

\* C6: when parse returned no diagnostics and transform and render returned,
\* the attempt ends with the error empty and the output equal to the text
\* render returned.
C6_SuccessClearsError ==
  (Done /\ Succeeded(last)) => (error = <<>> /\ output = last.render.text)

C6_Witness ==
  /\ Done
  /\ Succeeded(last)
  /\ last.priorError
  /\ output # <<>>

\* C7: an exception raised by client selection, parse, transform or render
\* ends the attempt with the error "Conversion error: " followed by the
\* exception's message, the output empty and nothing in flight.
C7_ExceptionCaught ==
  (Done /\ Raised(last))
    => /\ error = <<"Conversion error: ">> \o MessageOf(RaisedValue(last))
       /\ output = <<>>
       /\ ~loading
       /\ attempts = <<>>

C7_Witness ==
  /\ Done
  /\ last.render.called
  /\ ~last.render.ok
  /\ last.render.thrown.isError
  /\ last.render.thrown.message # <<>>
  /\ last.priorOutput

\* C8: transform diagnostics do not abort the attempt: render is then
\* called on the transformed document, and when it returns the output is its
\* text and the error is empty; parse diagnostics abort it before transform.
C8_WarningsNotFatal ==
  /\ (Done /\ Diagnosed(last.transform))
       => /\ last.render.called
          /\ last.calls[Len(last.calls)][1] = "render"
          /\ last.calls[Len(last.calls)][2] = "transformResult.baseUnit"
          /\ last.render.ok => (output = last.render.text /\ error = <<>>)
  /\ (Done /\ Diagnosed(last.parse))
       => (~last.transform.called /\ ~last.render.called /\ error # <<>>)

C8_Witness ==
  /\ Done
  /\ Diagnosed(last.transform)
  /\ last.render.ok
  /\ output # <<>>

\* the output and error an attempt ends with, as a function of the
\* library's responses alone
ExpectedOutput(l) == IF Succeeded(l) THEN l.render.text ELSE <<>>

ExpectedError(l) ==
  IF Raised(l) THEN <<"Conversion error: ">> \o MessageOf(RaisedValue(l))
  ELSE IF Diagnosed(l.parse)
  THEN <<"Parsing errors:", "\n">> \o Join(l.parse.results.list, <<"\n">>)
  ELSE <<>>

\* C9: the output and error a finished attempt leaves are a function of the
\* library's responses to that attempt, whatever output or error earlier
\* attempts had left.
C9_FreshResult ==
  Done => (output = ExpectedOutput(last) /\ error = ExpectedError(last))

C9_Witness ==
  /\ Done
  /\ last.priorOutput
  /\ ~last.priorError
  /\ error # <<>>

\* C10 as stated: in both variants each picker offers exactly the four
\* dialects and getClient returns a client for each of the four.
C10_FourEverywhere ==
  /\ InputFormatOptions(variant) = AllFormats
  /\ OutputFormatOptions(variant) = AllFormats
  /\ \A f \in AllFormats : getClient(variant, f) # Undefined

\* C10 amended: the styled variant's pickers offer exactly the four
\* dialects, the plain variant's exactly RAML 1.0, OAS 2.0 and OAS 3.0, and
\* in each variant getClient returns a client for every format its pickers
\* offer, so for the formats selected in every reachable state.
C10_OfferedHaveClients ==
  /\ variant = "styled" =>
       /\ InputFormatOptions(variant) = {"RAML 0.8", "RAML 1.0", "OAS 2.0", "OAS 3.0"}
       /\ OutputFormatOptions(variant) = {"RAML 0.8", "RAML 1.0", "OAS 2.0", "OAS 3.0"}
  /\ variant = "plain" =>
       /\ InputFormatOptions(variant) = {"RAML 1.0", "OAS 2.0", "OAS 3.0"}
       /\ OutputFormatOptions(variant) = {"RAML 1.0", "OAS 2.0", "OAS 3.0"}
  /\ \A f \in InputFormatOptions(variant) \cup OutputFormatOptions(variant) :
       getClient(variant, f) # Undefined
  /\ getClient(variant, inputFormat) # Undefined
  /\ getClient(variant, outputFormat) # Undefined

C10_Witness ==
  /\ variant = "styled"
  /\ inputFormat = "RAML 0.8"
  /\ outputFormat = "RAML 0.8"
  /\ Done
  /\ Succeeded(last)

\* where in the attempt's call log a library step was called
Positions(l, names) == {i \in 1..Len(l.calls) : l.calls[i][1] \in names}

ParsePositions(l) == Positions(l, {"parseDocument", "parseContent"})

TransformPositions(l) == Positions(l, {"transform"})

RenderPositions(l) == Positions(l, {"render"})

\* C11: within one attempt parse, transform and render are each called at
\* most once and in that order; transform is called only after parse
\* returned an empty diagnostic list, render only after transform returned;
\* after parse diagnostics or an exception no later step is called, and a
\* finished attempt has nothing left suspended that could call one.
C11_StraightLine ==
  /\ Cardinality(ParsePositions(last)) <= 1
  /\ Cardinality(TransformPositions(last)) <= 1
  /\ Cardinality(RenderPositions(last)) <= 1
  /\ \A i \in ParsePositions(last), j \in TransformPositions(last) : i < j
  /\ \A j \in TransformPositions(last), k \in RenderPositions(last) : j < k
  /\ \A i \in ParsePositions(last), k \in RenderPositions(last) : i < k
  /\ TransformPositions(last) # {}
       => /\ ParsePositions(last) # {}
          /\ last.parse.called /\ last.parse.ok /\ ~Diagnosed(last.parse)
  /\ RenderPositions(last) # {}
       => /\ TransformPositions(last) # {}
          /\ last.transform.called /\ last.transform.ok
  /\ last.start.at \in {"inputClient", "outputClient"} => ParsePositions(last) = {}
  /\ (last.start.at = "parse" \/ Diagnosed(last.parse)
        \/ (last.parse.called /\ ~last.parse.ok))
       => (TransformPositions(last) = {} /\ RenderPositions(last) = {})
  /\ (last.transform.called /\ ~last.transform.ok) => RenderPositions(last) = {}
  /\ (last.render.called /\ ~last.render.ok)
       => RenderPositions(last) = {Len(last.calls)}
  /\ Done => attempts = <<>>

C11_Witness ==
  /\ Done
  /\ last.transform.called
  /\ ~last.transform.ok
  /\ ParsePositions(last) = {3}
  /\ TransformPositions(last) = {4}
  /\ RenderPositions(last) = {}

====
